---- MODULE Spec2Model ----
(***************************************************************************)
(* Context Engineering Visualizer: conversation memory, context layer      *)
(* collection, the renderers, the agent's process_query and the drivers    *)
(* that call it (web UI handler, CLI interactive loop, CLI demo run).      *)
(*                                                                         *)
(* Texts are TLA+ strings; Len gives their character length.               *)
(***************************************************************************)
EXTENDS Integers, Sequences, FiniteSets, TLC

VARIABLES
    max_messages,    \* ConversationMemory.max_messages
    messages,        \* ConversationMemory.messages
    context_layers,  \* ContextVisualizer.context_layers
    token_counts,    \* ContextVisualizer.token_counts (dict: label -> tokens)
    clock,           \* logical value of datetime.now()
    returned,        \* what the last call returned or raised to its caller
    appended,        \* history: every message appended to the memory, in order
    entry,           \* which driver runs: "memory", "visualizer", "tools", "ui",
                     \* "interactive", "demo", "agent", "concurrent", "knowledge"
    agent,           \* the driver's agent reference: None or "agent"; for a
                     \* stand-alone agent, the package of its class
    chat_history,    \* ContextVisualizerUI.chat_history / the gradio chatbot value
    running,         \* "idle", "crashed" (uncaught exception) or "exited"
    shown,           \* what the user saw for the last query
    last,            \* history: the last process_query invocation on the agent
    exchanges,       \* history: <<query, answer>> of every successful query
    steps,           \* inputs the driver has taken (run_demo: scenarios started)
    calls,           \* the frames of the process_query invocations that overlap
    disk             \* the files of the knowledge base: the index and the PDF

vars == <<max_messages, messages, context_layers, token_counts, clock, returned,
          appended, entry, agent, chat_history, running, shown, last,
          exchanges, steps, calls, disk>>

memVars == <<max_messages, messages, appended>>
vizVars == <<context_layers, token_counts, clock>>
driverVars ==
    <<entry, agent, chat_history, running, shown, last, exchanges, steps, calls, disk>>

----------------------------------------------------------------------------
(* Bounds of the model *)

MaxCapacity == 3     \* capacities 0..MaxCapacity for a stand-alone memory
MaxAppends == 5      \* appends to a stand-alone memory
MaxLayers == 3       \* add_layer calls on a stand-alone visualizer
MaxQueries == 3      \* queries a driver submits

----------------------------------------------------------------------------
(* Python values and helpers *)

None == "None"

\* an optional integer argument: omitted (None) or given
Omitted == <<>>
Given(n) == <<n>>

Min(a, b) == IF a < b THEN a ELSE b
Max(a, b) == IF a > b THEN a ELSE b

\* Python's s[i:] on a list
SliceFrom(s, i) ==
    LET start == IF i < 0 THEN Max(Len(s) + i, 0) ELSE Min(i, Len(s))
    IN  SubSeq(s, start + 1, Len(s))

RECURSIVE SumSeq(_)
SumSeq(s) == IF s = <<>> THEN 0 ELSE Head(s) + SumSeq(Tail(s))

RECURSIVE SumValues(_)
\* sum(d.values()) of a dict
SumValues(d) ==
    IF DOMAIN d = {} THEN 0
    ELSE LET k == CHOOSE x \in DOMAIN d : TRUE
         IN  d[k] + SumValues([x \in DOMAIN d \ {k} |-> d[x]])

RECURSIVE Join(_, _)
\* sep.join(parts)
Join(sep, parts) ==
    IF parts = <<>> THEN ""
    ELSE IF Len(parts) = 1 THEN parts[1]
    ELSE parts[1] \o sep \o Join(sep, Tail(parts))

JoinLines(lines) == Join("\n", lines)

----------------------------------------------------------------------------
(* ConversationMemory *)

HumanMessage(content) == [role |-> "user", content |-> content]
AIMessage(content) == [role |-> "assistant", content |-> content]

TruncateKeepsOldest(msgs, n) ==
    IF Len(msgs) > n THEN SubSeq(msgs, 1, n) ELSE msgs

\* _truncate: if len(messages) > max_messages: messages = messages[-max_messages:]
Truncate(msgs, n) ==
    IF Len(msgs) > n THEN SliceFrom(msgs, -n) ELSE msgs

AddUserMessage(msgs, n, content) == Truncate(Append(msgs, HumanMessage(content)), n)

AddAiMessageWithoutTruncate(msgs, n, content) == Append(msgs, AIMessage(content))

AddAiMessage(msgs, n, content) == Truncate(Append(msgs, AIMessage(content)), n)

NoHistory == "No previous conversation"

GetHistoryTextWithoutSentinel(msgs) ==
    JoinLines([i \in 1..Len(msgs) |->
        (IF msgs[i].role = "user" THEN "User" ELSE "Assistant")
            \o ": " \o msgs[i].content])

\* get_history_text
GetHistoryText(msgs) ==
    IF msgs = <<>> THEN NoHistory
    ELSE JoinLines([i \in 1..Len(msgs) |->
            (IF msgs[i].role = "user" THEN "User" ELSE "Assistant")
                \o ": " \o msgs[i].content])

----------------------------------------------------------------------------
(* ContextVisualizer *)

\* a dict with key k set to v
DictSet(d, k, v) == [x \in DOMAIN d \cup {k} |-> IF x = k THEN v ELSE d[x]]

EmptyDict == [x \in {} |-> 0]

EstimateTokens(content) == Len(content) \div 4

\* add_layer on a visualizer value [context_layers, token_counts] at time now
AddLayer(viz, layer_name, content, token_estimate, now) ==
    LET tokens == IF token_estimate = Omitted THEN EstimateTokens(content)
                  ELSE token_estimate[1]
    IN  [context_layers |-> Append(viz.context_layers,
                                   [layer |-> layer_name, content |-> content,
                                    tokens |-> tokens, timestamp |-> now]),
         token_counts |-> DictSet(viz.token_counts, layer_name, tokens)]

\* ContextVisualizer()
NewVisualizer == [context_layers |-> <<>>, token_counts |-> EmptyDict]

\* get_summary
GetSummary(viz) ==
    [layers |-> [i \in 1..Len(viz.context_layers) |-> viz.context_layers[i].layer],
     total_tokens |-> SumValues(viz.token_counts),
     breakdown |-> viz.token_counts]

\* the visualizer held in the variables
Viz == [context_layers |-> context_layers, token_counts |-> token_counts]

----------------------------------------------------------------------------
(* Renderers.  A percentage is the exact ratio num/den of the float the    *)
(* code computes; a division by zero raises ZeroDivisionError.             *)

Ratio(n, d) ==
    IF d = 0 THEN [raised |-> TRUE, num |-> 0, den |-> 1]
    ELSE [raised |-> FALSE, num |-> n, den |-> d]

PercentageUnguarded(tokens, total_tokens) == Ratio(tokens * 100, total_tokens)

\* (layer["tokens"] / total_tokens * 100) if total_tokens > 0 else 0
Percentage(tokens, total_tokens) ==
    IF total_tokens > 0 THEN Ratio(tokens * 100, total_tokens) ELSE Ratio(0, 1)

\* int(x) of the ratio n/d with d > 0: truncation toward zero
IntOf(n, d) == IF n >= 0 THEN n \div d ELSE -((-n) \div d)

\* one rendered layer: its position, label, tokens and percentage
Row(viz, i, total_tokens) ==
    LET layer == viz.context_layers[i]
        p == Percentage(layer.tokens, total_tokens)
    IN  [index |-> i, layer |-> layer.layer, tokens |-> layer.tokens,
         raised |-> p.raised, percentage |-> <<p.num, p.den>>,
         bar_length |-> IntOf(p.num, 2 * p.den)]

Rows(viz) ==
    [i \in 1..Len(viz.context_layers) |-> Row(viz, i, SumValues(viz.token_counts))]

RenderResult(kind, rows) ==
    IF \E i \in 1..Len(rows) : rows[i].raised
    THEN [kind |-> kind, raised |-> TRUE, rows |-> <<>>, placeholder |-> FALSE]
    ELSE [kind |-> kind, raised |-> FALSE, rows |-> rows, placeholder |-> FALSE]

\* ContextVisualizer.visualize (CLI)
Visualize(viz) == RenderResult("visualize", Rows(viz))

\* ContextVisualizerUI.format_context_layers (HTML)
FormatContextLayers(viz) ==
    IF viz.context_layers = <<>>
    THEN [kind |-> "html", raised |-> FALSE, rows |-> <<>>, placeholder |-> TRUE]
    ELSE RenderResult("html", Rows(viz))

\* ContextVisualizerUI.format_context_details (markdown)
FormatContextDetails(viz) ==
    IF viz.context_layers = <<>>
    THEN [kind |-> "markdown", raised |-> FALSE, rows |-> <<>>, placeholder |-> TRUE]
    ELSE RenderResult("markdown", Rows(viz))

NoReturn == [kind |-> "none"]

----------------------------------------------------------------------------
(* ContextEngineeringAgent.  main.py and app/agent.py hold the same        *)
(* process_query; e names the implementation a driver uses ("ui" is the    *)
(* app package, the CLI drivers use main.py).                              *)

MAX_CONVERSATION_MESSAGES == 4

MainSystemPrompt ==
    "You are a data analyst assistant.\n\nYour role:\n- Answer questions about business metrics and data analysis\n- Use the provided context and knowledge to give accurate answers\n- If context is insufficient, clearly state what information is missing\n- Always explain your reasoning briefly\n- Use the calculator tool for numeric computations\n\nBe concise, accurate, and helpful."

SettingsSystemPrompt ==
    "You are an internal company knowledge assistant for AtlasPay.\n\nYour role:\n- Answer questions about AtlasPay's product strategy, decisions, metrics, and roadmap\n- Use the retrieved context from internal documentation to provide accurate answers\n- Reference specific sections when citing product decisions or strategic guidelines\n- If the context doesn't contain the information needed, clearly state that\n- Help team members understand product principles, feature prioritization, and past decisions\n- Use the calculate_metric tool for any metric calculations if needed\n\nBe clear, accurate, and reference the handbook when appropriate."

SystemPrompt(e) == IF e = "ui" THEN SettingsSystemPrompt ELSE MainSystemPrompt

\* "\n".join(f"- {tool.name}: {tool.description}" for tool in self.tools);
\* a tool's description is its docstring
ToolsContext(e) ==
    JoinLines(<<
        "- calculate_metric: " \o
            (IF e = "ui"
             THEN "Compute an official business metric using the centralized metrics logic.\n\nThis tool represents the company's authoritative metrics service.\nProduct and strategy documents intentionally omit calculation formulas\nand defer all computations to this tool to ensure consistency.\n\nIMPORTANT:\n- The input values are assumed to be pre-aggregated outputs from data pipelines\n  (e.g., totals, counts, retained revenue).\n- This tool should be used whenever a document explicitly references\n  the \"metrics service\" or \"official calculation\".\n\nArgs:\n    metric_name: Name of the metric to compute.\n        Supported values:\n        - \"nrr\": Net Revenue Retention\n        - \"stam\": Successful Transactions per Active Merchant\n        - \"payment_success_rate\": Adjusted Payment Success Rate\n\n    values: Comma-separated numeric values required for the metric.\n        The expected inputs depend on the metric:\n        - nrr: retained_revenue, starting_revenue\n        - stam: successful_transactions, active_merchants\n        - payment_success_rate: successful_payments, valid_payment_attempts\n\nReturns:\n    A human-readable string containing the official computed metric."
             ELSE "Calculate a business metric.\n\nArgs:\n    metric_name: Name of metric (aov, conversion_rate, clv, etc.)\n    values: Comma-separated values needed for calculation"),
        "- get_current_time: Get the current date and time" >>)

LayerLabels ==
    << "System Instructions", "Conversation History", "Retrieved Knowledge (RAG)",
       "User Query", "Available Tools" >>

StartCycleKeepsLayers(viz) == viz

\* self.visualizer = ContextVisualizer() at the start of process_query
StartCycle(viz) == NewVisualizer

MemoryBeforeInvokeRecordsQuery(msgs, n, user_query) == AddUserMessage(msgs, n, user_query)

\* the memory as it stands when retrieval and agent.invoke run: both adds
\* come after the response is extracted
MemoryBeforeInvoke(msgs, n, user_query) == msgs

\* the f-string sent to the model
ContextMessage(retrieved_context, history_text, user_query) ==
    "Context from Knowledge Base:\n" \o retrieved_context
        \o "\n\nPrevious Conversation:\n" \o history_text
        \o "\n\nCurrent Question:\n" \o user_query

AssembleSkipsHistory(viz, msgs, e, user_query, retrieval, now) ==
    LET v1 == AddLayer(StartCycle(viz), LayerLabels[1], SystemPrompt(e), Omitted, now + 1)
        history_text == GetHistoryText(msgs)
    IN  IF retrieval.raised
        THEN [raised |-> TRUE, visualizer |-> v1, history_text |-> history_text,
              retrieved_docs |-> <<>>, retrieved_context |-> "", clock |-> now + 1]
        ELSE LET v3 == AddLayer(v1, LayerLabels[3], retrieval.text, Omitted, now + 2)
                 v4 == AddLayer(v3, LayerLabels[4], user_query, Omitted, now + 3)
                 v5 == AddLayer(v4, LayerLabels[5], ToolsContext(e), Omitted, now + 4)
             IN  [raised |-> FALSE, visualizer |-> v5, history_text |-> history_text,
                  retrieved_docs |-> retrieval.docs,
                  retrieved_context |-> retrieval.text, clock |-> now + 4]

\* process_query up to the model call: the five layers, in order
Assemble(viz, msgs, e, user_query, retrieval, now) ==
    LET v1 == AddLayer(StartCycle(viz), LayerLabels[1], SystemPrompt(e), Omitted, now + 1)
        history_text == GetHistoryText(msgs)
        v2 == AddLayer(v1, LayerLabels[2],
                       IF history_text # NoHistory THEN history_text ELSE NoHistory,
                       Omitted, now + 2)
    IN  IF retrieval.raised
        THEN [raised |-> TRUE, visualizer |-> v2, history_text |-> history_text,
              retrieved_docs |-> <<>>, retrieved_context |-> "", clock |-> now + 2]
        ELSE LET v3 == AddLayer(v2, LayerLabels[3], retrieval.text, Omitted, now + 3)
                 v4 == AddLayer(v3, LayerLabels[4], user_query, Omitted, now + 4)
                 v5 == AddLayer(v4, LayerLabels[5], ToolsContext(e), Omitted, now + 5)
             IN  [raised |-> FALSE, visualizer |-> v5, history_text |-> history_text,
                  retrieved_docs |-> retrieval.docs,
                  retrieved_context |-> retrieval.text, clock |-> now + 5]

\* process_query(user_query) on an agent whose visualizer is viz and whose
\* memory is msgs (capacity n).  retrieval and invocation are what the
\* knowledge base and the model do: raise, or return a text.
ProcessQuery(viz, msgs, n, e, user_query, retrieval, invocation, now) ==
    LET a == Assemble(viz, msgs, e, user_query, retrieval, now)
        base == [visualizer |-> a.visualizer, clock |-> a.clock, started |-> now,
                 query |-> user_query, messages_before |-> msgs,
                 history_text |-> a.history_text, retrieved_docs |-> a.retrieved_docs,
                 retrieved_context |-> a.retrieved_context]
    IN  IF a.raised
        THEN base @@ [outcome |-> "raised", stage |-> "retrieval", response |-> "",
                      context_message |-> "",
                      messages |-> MemoryBeforeInvoke(msgs, n, user_query)]
        ELSE IF invocation.raised
        THEN base @@ [outcome |-> "raised", stage |-> invocation.stage, response |-> "",
                      context_message |->
                          ContextMessage(a.retrieved_context, a.history_text, user_query),
                      messages |-> MemoryBeforeInvoke(msgs, n, user_query)]
        ELSE base @@ [outcome |-> "ok", stage |-> "done", response |-> invocation.content,
                      context_message |->
                          ContextMessage(a.retrieved_context, a.history_text, user_query),
                      messages |->
                          AddAiMessage(
                              AddUserMessage(MemoryBeforeInvoke(msgs, n, user_query),
                                             n, user_query),
                              n, invocation.content)]

----------------------------------------------------------------------------
(* What the collaborators outside the repository can do *)

\* KnowledgeBase.documents of main.py
Documents ==
    << "Gross Revenue is defined as total sales before refunds and returns.",
       "Net Revenue equals gross revenue minus refunds, returns, and discounts.",
       "AOV (Average Order Value) is calculated as total revenue divided by number of orders.",
       "Customer Lifetime Value (CLV) is the total revenue expected from a customer over their entire relationship.",
       "Conversion Rate is the percentage of visitors who complete a desired action.",
       "Churn Rate measures the percentage of customers who stop using your service over a period.",
       "Monthly Recurring Revenue (MRR) is the predictable revenue generated each month.",
       "CAC (Customer Acquisition Cost) is the total cost of acquiring a new customer." >>

\* the rankings of k = 2 documents the model explores
RetrievedPairs == { <<3, 1>>, <<5, 6>> }

\* main.py retrieve_relevant: "\n".join(f"- {doc.page_content}" for doc in docs)
RetrieveRelevant(docs) == JoinLines([i \in 1..Len(docs) |-> "- " \o Documents[docs[i]]])

\* app/knowledge.py retrieve_relevant for chunks without metadata
FormatChunks(chunks) ==
    Join("\n\n", [i \in 1..Len(chunks) |->
                     "--- Chunk " \o ToString(i) \o " ---" \o "\n\n" \o chunks[i]])

\* what the similarity search of app/knowledge.py may find
SimilaritySearches == { <<>>, <<"AtlasPay prioritises payment reliability.">> }

\* app/knowledge.py retrieve_relevant_docs: nothing without a vector store
RetrieveRelevantDocs(vectorstore, found) == IF vectorstore = None THEN <<>> ELSE found

\* the documents a retrieval may return
RetrievedDocs(e) ==
    IF e = "ui"
    THEN { RetrieveRelevantDocs(vectorstore, found) :
               vectorstore \in { None, "faiss" }, found \in SimilaritySearches }
    ELSE { p : p \in RetrievedPairs }

\* retrieve_relevant raises, or returns the documents as one text
Retrievals(e) ==
    { [raised |-> TRUE, docs |-> <<>>, text |-> ""] }
        \cup { [raised |-> FALSE, docs |-> d,
                text |-> IF e = "ui" THEN FormatChunks(d) ELSE RetrieveRelevant(d)] :
                    d \in RetrievedDocs(e) }

\* final answers the model may give
Answers == { "AOV is total revenue divided by orders.", "It is $100." }

\* agent.invoke raises, or result["messages"][-1].content raises, or an answer
Invocations ==
    { [raised |-> TRUE, stage |-> "invoke", content |-> ""],
      [raised |-> TRUE, stage |-> "extract", content |-> ""] }
        \cup { [raised |-> FALSE, stage |-> "done", content |-> a] : a \in Answers }

\* str(e) of the exception a failed stage raises
ExceptionText(stage) ==
    CASE stage = "retrieval" -> "retrieval failed"
      [] stage = "invoke" -> "model invocation failed"
      [] stage = "extract" -> "list index out of range"
      [] OTHER -> "'NoneType' object has no attribute 'process_query'"

----------------------------------------------------------------------------
(* Inputs typed by the user.  str.strip() and str.lower() on the inputs    *)
(* the model explores.                                                     *)

UserInputs == { "", " ", " Quit ", "Hi", " What is AOV? " }

Strip(s) ==
    CASE s = " " -> ""
      [] s = " 500" -> "500"
      [] s = " Quit " -> "Quit"
      [] s = " What is AOV? " -> "What is AOV?"
      [] OTHER -> s

Lower(s) ==
    CASE s = "Quit" -> "quit"
      [] s = "AOV" -> "aov"
      [] s = "NRR" -> "nrr"
      [] s = "Hi" -> "hi"
      [] s = "What is AOV?" -> "what is aov?"
      [] OTHER -> s

\* the scenarios of run_demo
DemoQueries ==
    << "What is Average Order Value and how is it calculated?",
       "Calculate the AOV if total revenue is $50000 and we had 500 orders",
       "What about if we had 750 orders instead?" >>

----------------------------------------------------------------------------
(* State shared by the specifications *)

NoQuery == [outcome |-> "none"]
NothingShown == [raised |-> FALSE, kind |-> "none", text |-> ""]

\* the fields of a fresh agent: ConversationMemory(max_messages=4),
\* ContextVisualizer()
FreshAgentFields ==
    /\ max_messages = MAX_CONVERSATION_MESSAGES
    /\ messages = <<>>
    /\ context_layers = <<>>
    /\ token_counts = EmptyDict

\* no invocation overlaps another
NoCalls == <<>>

\* no file is looked at
NoDisk == [index |-> None, pdf |-> None]

NoDriver ==
    /\ disk = NoDisk
    /\ calls = NoCalls
    /\ agent = None
    /\ chat_history = <<>>
    /\ running = "idle"
    /\ shown = NothingShown
    /\ last = NoQuery
    /\ exchanges = <<>>
    /\ steps = 0

----------------------------------------------------------------------------
(* A stand-alone ConversationMemory of any capacity *)

MemContents == { "q", "a" }

MemInit ==
    /\ entry = "memory"
    /\ max_messages \in 0..MaxCapacity
    /\ messages = <<>>
    /\ appended = <<>>
    /\ context_layers = <<>>
    /\ token_counts = EmptyDict
    /\ clock = 0
    /\ returned = NoReturn
    /\ NoDriver

MemAddUserMessage(content) ==
    /\ entry = "memory"
    /\ Len(appended) < MaxAppends
    /\ messages' = AddUserMessage(messages, max_messages, content)
    /\ appended' = Append(appended, HumanMessage(content))
    /\ returned' = NoReturn
    /\ UNCHANGED <<max_messages, vizVars, driverVars>>

MemAddAiMessage(content) ==
    /\ entry = "memory"
    /\ Len(appended) < MaxAppends
    /\ messages' = AddAiMessage(messages, max_messages, content)
    /\ appended' = Append(appended, AIMessage(content))
    /\ returned' = NoReturn
    /\ UNCHANGED <<max_messages, vizVars, driverVars>>

MemGetHistoryText ==
    /\ entry = "memory"
    /\ returned' = [kind |-> "history_text", text |-> GetHistoryText(messages)]
    /\ UNCHANGED <<memVars, vizVars, driverVars>>

MemNext ==
    \/ \E c \in MemContents : MemAddUserMessage(c)
    \/ \E c \in MemContents : MemAddAiMessage(c)
    \/ MemGetHistoryText

SpecMemory == MemInit /\ [][MemNext]_vars

----------------------------------------------------------------------------
(* A stand-alone ContextVisualizer driven by any add_layer calls *)

VizLabels == { "System Instructions", "User Query" }
VizContents == { "", "abcdefgh" }
VizEstimates == { Omitted, Given(0), Given(-1) }

VizInit ==
    /\ entry = "visualizer"
    /\ FreshAgentFields
    /\ appended = <<>>
    /\ clock = 0
    /\ returned = NoReturn
    /\ NoDriver

VizAddLayer(layer_name, content, token_estimate) ==
    /\ entry = "visualizer"
    /\ Len(context_layers) < MaxLayers
    /\ LET v == AddLayer(Viz, layer_name, content, token_estimate, clock + 1)
       IN  /\ context_layers' = v.context_layers
           /\ token_counts' = v.token_counts
    /\ clock' = clock + 1
    /\ returned' = NoReturn
    /\ UNCHANGED <<memVars, driverVars>>

VizGetSummary ==
    /\ entry = "visualizer"
    /\ returned' = [kind |-> "summary", summary |-> GetSummary(Viz)]
    /\ UNCHANGED <<memVars, vizVars, driverVars>>

VizVisualize ==
    /\ entry = "visualizer"
    /\ returned' = Visualize(Viz)
    /\ UNCHANGED <<memVars, vizVars, driverVars>>

VizFormatContextLayers ==
    /\ entry = "visualizer"
    /\ returned' = FormatContextLayers(Viz)
    /\ UNCHANGED <<memVars, vizVars, driverVars>>

VizFormatContextDetails ==
    /\ entry = "visualizer"
    /\ returned' = FormatContextDetails(Viz)
    /\ UNCHANGED <<memVars, vizVars, driverVars>>

VizNext ==
    \/ \E l \in VizLabels, c \in VizContents, t \in VizEstimates : VizAddLayer(l, c, t)
    \/ VizGetSummary
    \/ VizVisualize
    \/ VizFormatContextLayers
    \/ VizFormatContextDetails

SpecVisualizer == VizInit /\ [][VizNext]_vars

----------------------------------------------------------------------------
(* calculate_metric, the tool of app/tools.py ("app") and of main.py       *)
(* ("main").  values is given by its comma-separated pieces, so that       *)
(* values.split(",") is the sequence itself; a float is the exact ratio    *)
(* of two integers.                                                        *)

MaxValues == 2       \* comma-separated pieces of a values argument

\* the pieces of values the model explores
ValueTokens == { "50000", " 500", "0", "7", "abc", "" }

MetricNames ==
    { "aov", "AOV", "conversion_rate", "churn_rate", "nrr", "NRR", "stam",
      "payment_success_rate", "clv" }

\* float(x) of a stripped piece: the number, or ValueError
ParseFloat(x) ==
    CASE x = "50000" -> [raised |-> FALSE, value |-> 50000, message |-> ""]
      [] x = "500" -> [raised |-> FALSE, value |-> 500, message |-> ""]
      [] x = "0" -> [raised |-> FALSE, value |-> 0, message |-> ""]
      [] x = "7" -> [raised |-> FALSE, value |-> 7, message |-> ""]
      [] OTHER -> [raised |-> TRUE, value |-> 0,
                   message |-> "could not convert string to float: '" \o x \o "'"]

\* nums = [float(x.strip()) for x in values.split(",")]
ParseValues(tokens) ==
    LET parsed == [i \in 1..Len(tokens) |-> ParseFloat(Strip(tokens[i]))]
        bad == { i \in 1..Len(tokens) : parsed[i].raised }
    IN  IF bad # {}
        THEN [raised |-> TRUE, nums |-> <<>>,
              message |-> parsed[CHOOSE i \in bad : \A j \in bad : i <= j].message]
        ELSE [raised |-> FALSE, nums |-> [i \in 1..Len(tokens) |-> parsed[i].value],
              message |-> ""]

\* round(n / d) for n >= 0, d > 0, halves to even
RoundRatio(n, d) ==
    LET q == n \div d
        r == n % d
    IN  IF 2 * r > d \/ (2 * r = d /\ q % 2 = 1) THEN q + 1 ELSE q

\* f"{x:.2f}" of x = n / d >= 0
Fixed2(n, d) ==
    LET hundredths == RoundRatio(n * 100, d)
        frac == hundredths % 100
    IN  ToString(hundredths \div 100) \o "."
            \o (IF frac < 10 THEN "0" ELSE "") \o ToString(frac)

Value(text) == [form |-> "value", text |-> text]

\* calculate_metric of app/tools.py
CalculateMetricApp(metric_name, tokens) ==
    LET p == ParseValues(tokens)
        nums == p.nums
        metric == Lower(metric_name)
        usable == Len(nums) >= 2 /\ nums[2] # 0
    IN  IF p.raised
        THEN [form |-> "error",
              text |-> "Error computing metric '" \o metric_name \o "': " \o p.message]
        ELSE IF metric = "nrr" /\ usable
        THEN Value("Net Revenue Retention (NRR): " \o Fixed2(nums[1] * 100, nums[2]) \o "%")
        ELSE IF metric = "stam" /\ usable
        THEN Value("STAM: " \o Fixed2(nums[1], nums[2])
                       \o " successful transactions per merchant")
        ELSE IF metric = "payment_success_rate" /\ usable
        THEN Value("Payment Success Rate (Adjusted): "
                       \o Fixed2(nums[1] * 100, nums[2]) \o "%")
        ELSE [form |-> "could_not_be_computed",
              text |-> "Metric '" \o metric_name \o "' could not be computed. "
                           \o "Please verify the metric name and input values."]

\* calculate_metric of main.py: the divisions are not guarded
CalculateMetricMain(metric_name, tokens) ==
    LET p == ParseValues(tokens)
        nums == p.nums
        metric == Lower(metric_name)
        supported == metric \in { "aov", "conversion_rate", "churn_rate" }
    IN  IF p.raised
        THEN [form |-> "error", text |-> "Error calculating metric: " \o p.message]
        ELSE IF supported /\ Len(nums) >= 2 /\ nums[2] = 0
        THEN [form |-> "error",
              text |-> "Error calculating metric: float division by zero"]
        ELSE IF metric = "aov" /\ Len(nums) >= 2
        THEN Value("AOV: $" \o Fixed2(nums[1], nums[2]))
        ELSE IF metric = "conversion_rate" /\ Len(nums) >= 2
        THEN Value("Conversion Rate: " \o Fixed2(nums[1] * 100, nums[2]) \o "%")
        ELSE IF metric = "churn_rate" /\ Len(nums) >= 2
        THEN Value("Churn Rate: " \o Fixed2(nums[1] * 100, nums[2]) \o "%")
        ELSE [form |-> "calculated",
              text |-> "Calculated " \o metric_name \o " with values " \o Join(",", tokens)]

CalculateMetric(impl, metric_name, tokens) ==
    IF impl = "app" THEN CalculateMetricApp(metric_name, tokens)
    ELSE CalculateMetricMain(metric_name, tokens)

\* the metrics an implementation has a formula for
SupportedMetrics(impl) ==
    IF impl = "app" THEN { "nrr", "stam", "payment_success_rate" }
    ELSE { "aov", "conversion_rate", "churn_rate" }

\* the tools list of the agent of each package
RegisteredTool(e) == IF e = "ui" THEN "app" ELSE "main"

ToolsInit ==
    /\ entry = "tools"
    /\ FreshAgentFields
    /\ appended = <<>>
    /\ clock = 0
    /\ returned = NoReturn
    /\ NoDriver

\* one call of the tool by the model-calling library
CallCalculateMetric(impl, metric_name, tokens) ==
    /\ entry = "tools"
    /\ returned = NoReturn
    /\ returned' = [kind |-> "calculate_metric", impl |-> impl,
                    metric_name |-> metric_name, tokens |-> tokens, raised |-> FALSE,
                    result |-> CalculateMetric(impl, metric_name, tokens)]
    /\ UNCHANGED <<memVars, vizVars, driverVars>>

\* the library hands the returned text to the model
ToolResultConsumed ==
    /\ entry = "tools"
    /\ returned # NoReturn
    /\ returned' = NoReturn
    /\ UNCHANGED <<memVars, vizVars, driverVars>>

ToolsNext ==
    \/ \E impl \in { "app", "main" }, metric_name \in MetricNames, n \in 1..MaxValues :
           \E tokens \in [1..n -> ValueTokens] :
               CallCalculateMetric(impl, metric_name, tokens)
    \/ ToolResultConsumed

SpecTools == ToolsInit /\ [][ToolsNext]_vars

----------------------------------------------------------------------------
(* The drivers of process_query *)

\* KnowledgeBase.__init__ of app/knowledge.py requires these arguments
KnowledgeBaseRequiredArgs == { "pdf_path", "index_path" }

\* ContextEngineeringAgent.__init__ of app/agent.py passes these
AppKnowledgeBaseArgs == { "top_k" }

AgentInitNeverRaises(e) == FALSE

\* ContextEngineeringAgent() raises: a call that omits a required argument
\* is a TypeError.  main.py's KnowledgeBase() takes no argument.
AgentInitRaises(e) ==
    IF e = "ui" THEN ~(KnowledgeBaseRequiredArgs \subseteq AppKnowledgeBaseArgs)
    ELSE FALSE

\* ContextVisualizerUI.initialize_agent: the agent reference afterwards
InitializeAgent(e) == IF AgentInitRaises(e) THEN None ELSE "agent"

\* the record of an invocation kept in last
Invocation(r) ==
    [outcome |-> r.outcome, stage |-> r.stage, started |-> r.started, query |-> r.query,
     response |-> r.response, messages_before |-> r.messages_before,
     history_text |-> r.history_text, retrieved_docs |-> r.retrieved_docs,
     retrieved_context |-> r.retrieved_context,
     context_message |-> r.context_message]

\* the agent's fields and the history after process_query returned or raised r
AgentAfter(r) ==
    /\ context_layers' = r.visualizer.context_layers
    /\ token_counts' = r.visualizer.token_counts
    /\ messages' = r.messages
    /\ clock' = r.clock
    /\ last' = Invocation(r)
    /\ exchanges' = IF r.outcome = "ok" THEN Append(exchanges, <<r.query, r.response>>)
                    ELSE exchanges
    /\ appended' = IF r.outcome = "ok"
                   THEN appended \o <<HumanMessage(r.query), AIMessage(r.response)>>
                   ELSE appended

AgentUntouched ==
    UNCHANGED <<messages, context_layers, token_counts, clock, last, exchanges, appended>>

Answer(text) == [raised |-> FALSE, kind |-> "answer", text |-> text]
ErrorMessage(prefix, stage) ==
    [raised |-> TRUE, kind |-> "error", text |-> prefix \o ExceptionText(stage)]
Traceback(stage) == [raised |-> TRUE, kind |-> "traceback", text |-> ExceptionText(stage)]

Init ==
    /\ entry \in { "ui", "interactive", "demo" }
    /\ FreshAgentFields
    /\ appended = <<>>
    /\ clock = 0
    /\ returned = NoReturn
    /\ agent = IF entry = "ui" THEN None ELSE "agent"
    /\ chat_history = <<>>
    /\ running = "idle"
    /\ shown = NothingShown
    /\ last = NoQuery
    /\ exchanges = <<>>
    /\ steps = 0
    /\ calls = NoCalls
    /\ disk = NoDisk

\* run_interactive: one turn of the while loop
InteractiveTurn(raw, retrieval, invocation) ==
    /\ entry = "interactive"
    /\ running = "idle"
    /\ steps < MaxQueries
    /\ steps' = steps + 1
    /\ LET user_input == Strip(raw)
       IN  IF Lower(user_input) \in { "quit", "exit", "q" }
           THEN /\ running' = "exited"
                /\ shown' = [raised |-> FALSE, kind |-> "goodbye", text |-> "Goodbye!"]
                /\ returned' = NoReturn
                /\ AgentUntouched
           ELSE IF user_input = ""
           THEN /\ running' = "idle"
                /\ shown' = NothingShown
                /\ returned' = NoReturn
                /\ AgentUntouched
           ELSE LET r == ProcessQuery(Viz, messages, max_messages, entry, user_input,
                                      retrieval, invocation, clock)
                IN  /\ AgentAfter(r)
                    /\ running' = "idle"
                    /\ returned' = [kind |-> "process_query", outcome |-> r.outcome,
                                    response |-> r.response]
                    /\ shown' = IF r.outcome = "ok" THEN Answer(r.response)
                                ELSE ErrorMessage("Error: ", r.stage)
    /\ UNCHANGED <<max_messages, entry, agent, chat_history, calls, disk>>

\* run_interactive: Ctrl-C at the prompt
InteractiveInterrupt ==
    /\ entry = "interactive"
    /\ running = "idle"
    /\ running' = "exited"
    /\ shown' = [raised |-> FALSE, kind |-> "goodbye", text |-> "Goodbye!"]
    /\ returned' = NoReturn
    /\ AgentUntouched
    /\ UNCHANGED <<max_messages, entry, agent, chat_history, steps, calls, disk>>

\* run_demo: the next scenario; nothing catches what process_query raises
DemoScenario(retrieval, invocation) ==
    /\ entry = "demo"
    /\ running = "idle"
    /\ steps < Len(DemoQueries)
    /\ steps' = steps + 1
    /\ LET r == ProcessQuery(Viz, messages, max_messages, entry, DemoQueries[steps + 1],
                             retrieval, invocation, clock)
       IN  /\ AgentAfter(r)
           /\ returned' = [kind |-> "process_query", outcome |-> r.outcome,
                           response |-> r.response]
           /\ running' = IF r.outcome = "ok" THEN "idle" ELSE "crashed"
           /\ shown' = IF r.outcome = "ok" THEN Answer(r.response) ELSE Traceback(r.stage)
    /\ UNCHANGED <<max_messages, entry, agent, chat_history, calls, disk>>

\* run_demo: the final summary
DemoSummary ==
    /\ entry = "demo"
    /\ running = "idle"
    /\ steps = Len(DemoQueries)
    /\ returned' = [kind |-> "summary", summary |-> GetSummary(Viz)]
    /\ running' = "exited"
    /\ shown' = shown
    /\ AgentUntouched
    /\ UNCHANGED <<max_messages, entry, agent, chat_history, steps, calls, disk>>

UserTurn(content) == [role |-> "user", content |-> content]
AssistantTurn(content) == [role |-> "assistant", content |-> content]

IsBlankOnlyEmpty(query) == query = ""

\* not query.strip()
IsBlank(query) == Strip(query) = ""

\* ContextVisualizerUI.process_query(query, history, show_visualization)
UiProcessQuery(query, show_visualization, retrieval, invocation) ==
    /\ entry = "ui"
    /\ running = "idle"
    /\ steps < MaxQueries
    /\ steps' = steps + 1
    /\ running' = "idle"
    /\ agent' = IF agent = None THEN InitializeAgent(entry) ELSE agent
    /\ IF IsBlank(query)
       THEN /\ chat_history' = chat_history
            /\ returned' = [kind |-> "ui", handler |-> "process_query", query |-> query,
                            initialize_agent |-> (agent = None),
                            history |-> chat_history, html |-> NoReturn,
                            details |-> NoReturn]
            /\ shown' = NothingShown
            /\ AgentUntouched
       ELSE IF agent' = None
       THEN \* self.agent.process_query on None: AttributeError, caught
            /\ chat_history' = chat_history \o
                   <<UserTurn(query),
                     AssistantTurn("Error processing query: " \o ExceptionText("none"))>>
            /\ returned' = [kind |-> "ui", handler |-> "process_query", query |-> query,
                            initialize_agent |-> (agent = None),
                            history |-> chat_history', html |-> NoReturn,
                            details |-> NoReturn]
            /\ shown' = ErrorMessage("Error processing query: ", "none")
            /\ AgentUntouched
       ELSE LET r == ProcessQuery(Viz, messages, max_messages, entry, query,
                                  retrieval, invocation, clock)
            IN  /\ AgentAfter(r)
                /\ chat_history' = chat_history \o
                       <<UserTurn(query),
                         AssistantTurn(IF r.outcome = "ok" THEN r.response
                                       ELSE "Error processing query: "
                                                \o ExceptionText(r.stage))>>
                /\ returned' =
                       [kind |-> "ui", handler |-> "process_query", query |-> query,
                            initialize_agent |-> (agent = None),
                        history |-> chat_history',
                        html |-> IF r.outcome = "ok" /\ show_visualization
                                 THEN FormatContextLayers(r.visualizer) ELSE NoReturn,
                        details |-> IF r.outcome = "ok" /\ show_visualization
                                    THEN FormatContextDetails(r.visualizer) ELSE NoReturn]
                /\ shown' = IF r.outcome = "ok" THEN Answer(r.response)
                            ELSE ErrorMessage("Error processing query: ", r.stage)
    /\ UNCHANGED <<max_messages, entry, calls, disk>>

ClearedMessagesKeepsThem(agent_ref, msgs) == msgs

\* if self.agent: self.agent.memory.messages = []
ClearedMessages(agent_ref, msgs) == IF agent_ref # None THEN <<>> ELSE msgs

\* ContextVisualizerUI.clear_conversation
UiClearConversation ==
    /\ entry = "ui"
    /\ running = "idle"
    /\ messages' = ClearedMessages(agent, messages)
    /\ chat_history' = <<>>
    /\ returned' = [kind |-> "ui", handler |-> "clear_conversation", query |-> "",
                    initialize_agent |-> FALSE,
                    history |-> <<>>, html |-> NoReturn, details |-> NoReturn]
    /\ shown' = NothingShown
    /\ UNCHANGED <<max_messages, context_layers, token_counts, clock, appended, entry,
                   agent, running, last, exchanges, steps, calls, disk>>

Next ==
    \/ \E raw \in UserInputs, retrieval \in Retrievals(entry), invocation \in Invocations :
           InteractiveTurn(raw, retrieval, invocation)
    \/ InteractiveInterrupt
    \/ \E retrieval \in Retrievals(entry), invocation \in Invocations :
           DemoScenario(retrieval, invocation)
    \/ DemoSummary
    \/ \E query \in UserInputs, show_visualization \in BOOLEAN,
          retrieval \in Retrievals(entry), invocation \in Invocations :
           UiProcessQuery(query, show_visualization, retrieval, invocation)
    \/ UiClearConversation

Spec == Init /\ [][Next]_vars

----------------------------------------------------------------------------
(* The handlers of the web UI on a ContextVisualizerUI whose agent         *)
(* reference is unset, as __init__ leaves it, or refers to a constructed   *)
(* agent, as initialize_agent leaves it when the constructor returns.      *)

UiInit ==
    /\ entry = "ui"
    /\ agent \in { None, "agent" }
    /\ FreshAgentFields
    /\ appended = <<>>
    /\ clock = 0
    /\ returned = NoReturn
    /\ chat_history = <<>>
    /\ running = "idle"
    /\ shown = NothingShown
    /\ last = NoQuery
    /\ exchanges = <<>>
    /\ steps = 0
    /\ calls = NoCalls
    /\ disk = NoDisk

\* what the textbox holds when a listener fires
UiInputs == { "", " ", "Hi" }

UiNext ==
    \/ \E query \in UiInputs, show_visualization \in BOOLEAN,
          retrieval \in Retrievals(entry), invocation \in Invocations :
           UiProcessQuery(query, show_visualization, retrieval, invocation)
    \/ UiClearConversation

SpecUi == UiInit /\ [][UiNext]_vars

----------------------------------------------------------------------------
(* One ContextEngineeringAgent used by one caller at a time.  The agent is *)
(* an instance of the class of app/agent.py or of main.py, with its fields *)
(* as __init__ assigns them; the capacity of its memory, a constant 4 in   *)
(* both packages, ranges over 1..MaxAgentCapacity.                         *)

MaxAgentCapacity == 4
MaxAgentQueries == 3

AgentClasses == { "app", "main" }

\* the entry point whose package defines the class
PackageOf(class) == IF class = "app" THEN "ui" ELSE "interactive"

\* the questions put to the agent
AgentQueries == { "What is AOV?", "Hi" }

AgentInit ==
    /\ entry = "agent"
    /\ agent \in AgentClasses
    /\ max_messages \in 1..MaxAgentCapacity
    /\ messages = <<>>
    /\ context_layers = <<>>
    /\ token_counts = EmptyDict
    /\ appended = <<>>
    /\ clock = 0
    /\ returned = NoReturn
    /\ chat_history = <<>>
    /\ running = "idle"
    /\ shown = NothingShown
    /\ last = NoQuery
    /\ exchanges = <<>>
    /\ steps = 0
    /\ calls = NoCalls
    /\ disk = NoDisk

\* agent.process_query(user_query), from the call to the return or the raise
AgentProcessQuery(user_query, retrieval, invocation) ==
    /\ entry = "agent"
    /\ steps < MaxAgentQueries
    /\ steps' = steps + 1
    /\ LET r == ProcessQuery(Viz, messages, max_messages, PackageOf(agent), user_query,
                             retrieval, invocation, clock)
       IN  /\ AgentAfter(r)
           /\ returned' = [kind |-> "process_query", outcome |-> r.outcome,
                           response |-> r.response]
    /\ UNCHANGED <<max_messages, entry, agent, chat_history, running, shown, calls, disk>>

\* self.agent.memory.messages = [] of ContextVisualizerUI.clear_conversation
AgentClearMemory ==
    /\ entry = "agent"
    /\ agent = "app"
    /\ messages' = <<>>
    /\ returned' = [kind |-> "clear_conversation"]
    /\ UNCHANGED <<max_messages, context_layers, token_counts, clock, appended, entry,
                   agent, chat_history, running, shown, last, exchanges, steps, calls, disk>>

AgentNext ==
    \/ \E user_query \in AgentQueries, retrieval \in Retrievals(PackageOf(agent)),
          invocation \in Invocations :
           AgentProcessQuery(user_query, retrieval, invocation)
    \/ AgentClearMemory

SpecAgent == AgentInit /\ [][AgentNext]_vars

----------------------------------------------------------------------------
(* Two process_query invocations on one agent of app/agent.py, as the two  *)
(* listeners of the web UI (the button's click, the textbox's submit) can  *)
(* start them.  An invocation can lose the processor at its two blocking   *)
(* calls, retrieve_relevant and agent.invoke, and between its statements   *)
(* on the memory; every add_layer goes to the object self.visualizer       *)
(* refers to at that moment.                                               *)

CallIds == { 1, 2 }

\* the frame of an invocation that has not started
NoFrame ==
    [pc |-> "start", query |-> "", history_text |-> "", overlapped |-> {},
     retrieved_context |-> "", context_message |-> "", response |-> "",
     visualizer |-> NoReturn]

\* invocations that are waiting for the knowledge base or for the model
Awaiting(frames) == { t \in DOMAIN frames : frames[t].pc \in { "retrieve", "invoke" } }

\* process_query takes no lock: an invocation may start whatever the others do
MayBegin(frames, t) == frames[t].pc = "start"

\* process_query before retrieve_relevant: a new visualizer, layers 1 and 2
AssembleBeforeRetrieval(viz, msgs, e, now) ==
    LET v1 == AddLayer(StartCycle(viz), LayerLabels[1], SystemPrompt(e), Omitted, now + 1)
        history_text == GetHistoryText(msgs)
        v2 == AddLayer(v1, LayerLabels[2],
                       IF history_text # NoHistory THEN history_text ELSE NoHistory,
                       Omitted, now + 2)
    IN  [visualizer |-> v2, history_text |-> history_text, clock |-> now + 2]

\* process_query after retrieve_relevant returned: layers 3 to 5
AssembleAfterRetrieval(viz, e, user_query, retrieved_context, now) ==
    LET v3 == AddLayer(viz, LayerLabels[3], retrieved_context, Omitted, now + 1)
        v4 == AddLayer(v3, LayerLabels[4], user_query, Omitted, now + 2)
        v5 == AddLayer(v4, LayerLabels[5], ToolsContext(e), Omitted, now + 3)
    IN  [visualizer |-> v5, clock |-> now + 3]

ConcInit ==
    /\ entry = "concurrent"
    /\ agent = "app"
    /\ FreshAgentFields
    /\ appended = <<>>
    /\ clock = 0
    /\ returned = NoReturn
    /\ chat_history = <<>>
    /\ running = "idle"
    /\ shown = NothingShown
    /\ last = NoQuery
    /\ exchanges = <<>>
    /\ steps = 0
    /\ calls = [t \in CallIds |-> NoFrame]
    /\ disk = NoDisk

ConcUnchanged ==
    UNCHANGED <<max_messages, entry, agent, chat_history, running, shown, last, disk>>

\* lines 51 to 62: the visualizer is replaced, the history is read
ConcBegin(t, user_query) ==
    /\ entry = "concurrent"
    /\ MayBegin(calls, t)
    /\ LET a == AssembleBeforeRetrieval(Viz, messages, PackageOf(agent), clock)
       IN  /\ context_layers' = a.visualizer.context_layers
           /\ token_counts' = a.visualizer.token_counts
           /\ clock' = a.clock
           /\ calls' = [calls EXCEPT ![t] =
                            [@ EXCEPT !.pc = "retrieve", !.query = user_query,
                                      !.history_text = a.history_text,
                                      !.overlapped = Awaiting(calls)]]
    /\ messages' = MemoryBeforeInvoke(messages, max_messages, user_query)
    /\ steps' = steps + 1
    /\ UNCHANGED <<appended, exchanges, returned>>
    /\ ConcUnchanged

\* lines 68 to 97: retrieve_relevant returns or raises; layers 3 to 5 and
\* the prompt
ConcRetrieved(t, retrieval) ==
    /\ entry = "concurrent"
    /\ calls[t].pc = "retrieve"
    /\ IF retrieval.raised
       THEN /\ calls' = [calls EXCEPT ![t] = [@ EXCEPT !.pc = "raised"]]
            /\ returned' = [kind |-> "process_query", outcome |-> "raised", response |-> ""]
            /\ UNCHANGED <<context_layers, token_counts, clock>>
       ELSE LET a == AssembleAfterRetrieval(Viz, PackageOf(agent), calls[t].query,
                                            retrieval.text, clock)
            IN  /\ context_layers' = a.visualizer.context_layers
                /\ token_counts' = a.visualizer.token_counts
                /\ clock' = a.clock
                /\ calls' = [calls EXCEPT ![t] =
                                 [@ EXCEPT !.pc = "invoke",
                                           !.retrieved_context = retrieval.text,
                                           !.context_message =
                                               ContextMessage(retrieval.text,
                                                              calls[t].history_text,
                                                              calls[t].query)]]
                /\ UNCHANGED returned
    /\ UNCHANGED <<messages, appended, exchanges, steps>>
    /\ ConcUnchanged

\* lines 100 to 105: agent.invoke returns or raises; the response is extracted
ConcInvoked(t, invocation) ==
    /\ entry = "concurrent"
    /\ calls[t].pc = "invoke"
    /\ IF invocation.raised
       THEN /\ calls' = [calls EXCEPT ![t] = [@ EXCEPT !.pc = "raised"]]
            /\ returned' = [kind |-> "process_query", outcome |-> "raised", response |-> ""]
       ELSE /\ calls' = [calls EXCEPT ![t] =
                             [@ EXCEPT !.pc = "add_user", !.response = invocation.content]]
            /\ UNCHANGED returned
    /\ UNCHANGED <<messages, context_layers, token_counts, clock, appended, exchanges, steps>>
    /\ ConcUnchanged

\* line 108: self.memory.add_user_message(user_query)
ConcAddUserMessage(t) ==
    /\ entry = "concurrent"
    /\ calls[t].pc = "add_user"
    /\ messages' = AddUserMessage(messages, max_messages, calls[t].query)
    /\ appended' = Append(appended, HumanMessage(calls[t].query))
    /\ calls' = [calls EXCEPT ![t] = [@ EXCEPT !.pc = "add_ai"]]
    /\ UNCHANGED <<context_layers, token_counts, clock, exchanges, returned, steps>>
    /\ ConcUnchanged

\* line 109: self.memory.add_ai_message(response)
ConcAddAiMessage(t) ==
    /\ entry = "concurrent"
    /\ calls[t].pc = "add_ai"
    /\ messages' = AddAiMessage(messages, max_messages, calls[t].response)
    /\ appended' = Append(appended, AIMessage(calls[t].response))
    /\ exchanges' = Append(exchanges, <<calls[t].query, calls[t].response>>)
    /\ calls' = [calls EXCEPT ![t] = [@ EXCEPT !.pc = "return"]]
    /\ UNCHANGED <<context_layers, token_counts, clock, returned, steps>>
    /\ ConcUnchanged

\* line 111: return response, self.visualizer
ConcReturn(t) ==
    /\ entry = "concurrent"
    /\ calls[t].pc = "return"
    /\ calls' = [calls EXCEPT ![t] = [@ EXCEPT !.pc = "returned", !.visualizer = Viz]]
    /\ returned' = [kind |-> "process_query", outcome |-> "ok",
                    response |-> calls[t].response]
    /\ UNCHANGED <<messages, context_layers, token_counts, clock, appended, exchanges, steps>>
    /\ ConcUnchanged

ConcNext ==
    \/ \E t \in CallIds, user_query \in AgentQueries : ConcBegin(t, user_query)
    \/ \E t \in CallIds, retrieval \in Retrievals(PackageOf(agent)) :
           ConcRetrieved(t, retrieval)
    \/ \E t \in CallIds, invocation \in Invocations : ConcInvoked(t, invocation)
    \/ \E t \in CallIds : ConcAddUserMessage(t)
    \/ \E t \in CallIds : ConcAddAiMessage(t)
    \/ \E t \in CallIds : ConcReturn(t)

SpecConcurrent == ConcInit /\ [][ConcNext]_vars

----------------------------------------------------------------------------
(* KnowledgeBase._load_or_create_index of app/knowledge.py on the files at *)
(* index_path and pdf_path                                                 *)

MaxBuilds == 3       \* calls of _load_or_create_index in a behaviour

\* the documents that may be at pdf_path
PdfVersions == { "handbook v1", "handbook v2" }

\* the index FAISS.from_documents builds from a document and save_local writes
IndexOf(pdf) == "index of " \o pdf

\* _load_or_create_index(recreate) on the files d.  rmtree_ok: whether
\* shutil.rmtree removes the old index; library_ok: whether the calls of
\* FAISS and PyPDFLoader return.
LoadOrCreateIndex(d, recreate, rmtree_ok, library_ok) ==
    LET exists == d.index # None
        removed == recreate /\ exists /\ rmtree_ok
        afterRemove == IF removed THEN [d EXCEPT !.index = None] ELSE d
    IN  IF ~recreate /\ exists
        THEN IF library_ok
             THEN [disk |-> d, outcome |-> "loaded", exception |-> None,
                   pdf_read |-> FALSE, vectorstore |-> d.index]
             ELSE [disk |-> d, outcome |-> "raised", exception |-> "Exception",
                   pdf_read |-> FALSE, vectorstore |-> None]
        ELSE IF d.pdf = None
        THEN [disk |-> afterRemove, outcome |-> "raised",
              exception |-> "FileNotFoundError", pdf_read |-> FALSE,
              vectorstore |-> None]
        ELSE IF ~library_ok
        THEN [disk |-> afterRemove, outcome |-> "raised", exception |-> "Exception",
              pdf_read |-> TRUE, vectorstore |-> None]
        ELSE [disk |-> [afterRemove EXCEPT !.index = IndexOf(d.pdf)],
              outcome |-> "created", exception |-> None, pdf_read |-> TRUE,
              vectorstore |-> IndexOf(d.pdf)]

IndexInit ==
    /\ entry = "knowledge"
    /\ FreshAgentFields
    /\ appended = <<>>
    /\ clock = 0
    /\ returned = NoReturn
    /\ agent = None
    /\ chat_history = <<>>
    /\ running = "idle"
    /\ shown = NothingShown
    /\ last = NoQuery
    /\ exchanges = <<>>
    /\ steps = 0
    /\ calls = NoCalls
    /\ disk \in [index : { None } \cup { IndexOf(v) : v \in PdfVersions },
                 pdf : { None } \cup PdfVersions]

\* KnowledgeBase(pdf_path, index_path, recreate_index=recreate)
KnowledgeBaseInit(recreate, rmtree_ok, library_ok) ==
    /\ entry = "knowledge"
    /\ steps < MaxBuilds
    /\ steps' = steps + 1
    /\ LET r == LoadOrCreateIndex(disk, recreate, rmtree_ok, library_ok)
       IN  /\ disk' = r.disk
           /\ returned' = [kind |-> "load_or_create_index", recreate |-> recreate,
                           index_before |-> disk.index, outcome |-> r.outcome,
                           exception |-> r.exception, pdf_read |-> r.pdf_read,
                           vectorstore |-> r.vectorstore]
    /\ UNCHANGED <<memVars, vizVars, entry, agent, chat_history, running, shown, last,
                   exchanges, calls>>

IndexNext ==
    \E recreate \in BOOLEAN, rmtree_ok \in BOOLEAN, library_ok \in BOOLEAN :
        KnowledgeBaseInit(recreate, rmtree_ok, library_ok)

SpecIndex == IndexInit /\ [][IndexNext]_vars

----------------------------------------------------------------------------
(* Properties *)

\* the last k elements of a sequence
LastK(s, k) == SubSeq(s, Len(s) - k + 1, Len(s))

\* C1: for every capacity N >= 0 (N = 0 included) and every sequence of
\* add_user_message / add_ai_message calls, the memory holds at most N
\* messages after each call.
C1_LengthAtMostCapacity == Len(messages) <= max_messages

\* C2: after k appends to a memory of capacity N the stored messages are
\* exactly the last min(k, N) appended messages, in order, each with its
\* role and content.
C2_RetainsLastAppended ==
    messages = LastK(appended, Min(Len(appended), max_messages))

\* C3: a process_query that raises (retrieval, model call or response
\* extraction) leaves the memory's messages exactly as they were.
C3_FailedQueryLeavesMemory ==
    [][(last' # last /\ last'.outcome = "raised") => messages' = messages]_vars

\* C3 witness: a model call failed on a memory that already held two exchanges
C3_Witness ==
    /\ last.outcome = "raised"
    /\ last.stage = "invoke"
    /\ Len(messages) = 4
    /\ messages = last.messages_before

\* C4: at every entry point, an exception raised while a query is processed
\* is turned into a user-visible error message and the driver is idle again.
C4_ExceptionsBecomeErrorMessages ==
    shown.raised => (shown.kind = "error" /\ running = "idle")

\* the labels of the layers held by the visualizer, in insertion order
Labels == GetSummary(Viz).layers

\* C5 as stated: after a successful process_query the visualizer holds five
\* layers labelled System Instructions, Conversation History, Retrieved
\* Knowledge, User Query, Available Tools, in that order.
C5_FiveLayersAsStated ==
    last.outcome = "ok" =>
        Labels = << "System Instructions", "Conversation History", "Retrieved Knowledge",
                    "User Query", "Available Tools" >>

\* C5 amended: after a successful process_query the visualizer holds exactly
\* five layers labelled System Instructions, Conversation History, Retrieved
\* Knowledge (RAG), User Query, Available Tools, in that order, and the five
\* labels are pairwise distinct.
C5_FiveLayers ==
    last.outcome = "ok" =>
        /\ Labels = << "System Instructions", "Conversation History",
                       "Retrieved Knowledge (RAG)", "User Query", "Available Tools" >>
        /\ Cardinality({ Labels[i] : i \in 1..Len(Labels) }) = 5
        /\ Cardinality(DOMAIN token_counts) = 5

\* C5 witness: a successful query on a memory that was not empty
C5_Witness ==
    /\ last.outcome = "ok"
    /\ last.messages_before # <<>>
    /\ Len(context_layers) = 5

\* C6: after any mix of successful and failed queries, the visualizer left by
\* the latest successful process_query holds only layers added during that
\* query (one per add_layer call of that query, with that query's contents),
\* and token_counts holds only that query's labels.
C6_NoAccumulation ==
    last.outcome = "ok" =>
        /\ \A i \in 1..Len(context_layers) : context_layers[i].timestamp > last.started
        /\ Len(context_layers) = 5
        /\ context_layers[2].content = last.history_text
        /\ context_layers[3].content = last.retrieved_context
        /\ context_layers[4].content = last.query
        /\ DOMAIN token_counts = { context_layers[i].layer : i \in 1..Len(context_layers) }

\* C6 witness: the third query succeeded, after one success and one query
\* that failed at retrieval (clock: 5 + 2 + 5 add_layer calls)
C6_Witness ==
    /\ last.outcome = "ok"
    /\ Len(exchanges) = 2
    /\ steps = 3
    /\ clock = 12

\* the token estimates of the layers added so far, in order
AddedEstimates == [i \in 1..Len(context_layers) |-> context_layers[i].tokens]

\* C7: get_summary()['total_tokens'] is the sum of the token estimates of all
\* individually added layers (repeated labels included); with no add_layer
\* call the total is 0 and the label list is empty.
C7_TotalIsSumOfAdded ==
    returned.kind = "summary" =>
        /\ returned.summary.total_tokens = SumSeq(AddedEstimates)
        /\ (context_layers = <<>> =>
                returned.summary.total_tokens = 0 /\ returned.summary.layers = <<>>)

\* C8: each label of token_counts has exactly one entry in context_layers,
\* and each entry of context_layers has its label in token_counts with the
\* same token value.
C8_MappingMatchesSequence ==
    /\ \A l \in DOMAIN token_counts :
           Cardinality({ i \in 1..Len(context_layers) : context_layers[i].layer = l }) = 1
    /\ \A i \in 1..Len(context_layers) :
           /\ context_layers[i].layer \in DOMAIN token_counts
           /\ token_counts[context_layers[i].layer] = context_layers[i].tokens

IsRendering(r) == r.kind \in { "visualize", "html", "markdown" }

\* C9: when the total of the aggregate token estimates is 0, each renderer
\* (visualize, format_context_layers, format_context_details) returns without
\* raising and reports 0 percent for every layer.
C9_ZeroTotalRendersZero ==
    (IsRendering(returned) /\ SumValues(token_counts) = 0) =>
        /\ ~returned.raised
        /\ \A i \in 1..Len(returned.rows) :
               returned.rows[i].percentage[1] = 0 /\ returned.rows[i].bar_length = 0

\* C9 witness: the HTML renderer ran on two layers of total 0
C9_Witness ==
    /\ IsRendering(returned)
    /\ returned.kind = "html"
    /\ SumValues(token_counts) = 0
    /\ Len(context_layers) = 2
    /\ Len(returned.rows) = 2

\* C10: with max_messages = 4, after s >= 2 successful queries the memory is
\* exactly [user q(s-1), assistant a(s-1), user q(s), assistant a(s)].
C10_LastTwoExchanges ==
    LET s == Len(exchanges)
    IN  s >= 2 =>
            messages = << HumanMessage(exchanges[s - 1][1]), AIMessage(exchanges[s - 1][2]),
                          HumanMessage(exchanges[s][1]), AIMessage(exchanges[s][2]) >>

\* C10 witness: three successful queries, the first exchange evicted
C10_Witness ==
    /\ Len(exchanges) = 3
    /\ max_messages = 4
    /\ Len(messages) = 4
    /\ messages[1].content = exchanges[2][1]

\* one line of rendered history: the role name, a colon, the content
HistoryLine(m) ==
    IF m.role = "user" THEN "User: " \o m.content ELSE "Assistant: " \o m.content

RECURSIVE HistoryLines(_)
\* the lines of the given messages, oldest first, separated by newlines
HistoryLines(msgs) ==
    IF Len(msgs) = 1 THEN HistoryLine(msgs[1])
    ELSE HistoryLine(msgs[1]) \o "\n" \o HistoryLines(Tail(msgs))

\* C11: the Conversation History layer of a query, and the history embedded
\* in the prompt sent to the model, render the memory as it stood before the
\* query: the sentinel "No previous conversation" exactly when that memory
\* was empty, otherwise one "User: ..." / "Assistant: ..." line per stored
\* message in chronological order; the query's own exchange is not in it.
C11_HistoryIsMemoryBefore ==
    last.outcome # "none" =>
        LET before == last.messages_before
            text == context_layers[2].content
        IN  /\ context_layers[2].layer = "Conversation History"
            /\ (text = "No previous conversation") <=> (before = <<>>)
            /\ before # <<>> => text = HistoryLines(before)
            /\ last.stage # "retrieval" =>
                   last.context_message =
                       "Context from Knowledge Base:\n" \o last.retrieved_context
                           \o "\n\nPrevious Conversation:\n" \o text
                           \o "\n\nCurrent Question:\n" \o last.query

\* C11 witness: a successful query whose history layer renders four messages
C11_Witness ==
    /\ last.outcome = "ok"
    /\ Len(last.messages_before) = 4
    /\ context_layers[2].content = HistoryLines(last.messages_before)
    /\ messages # last.messages_before

\* whether every piece of a values argument parses as a number
AllNumeric(tokens) == ~ParseValues(tokens).raised

\* a returned text that reports an error or a failure to compute
IsFailureText(result) == result.form \in { "error", "could_not_be_computed" }

\* C12: calculate_metric never raises, and with a non-numeric piece, or with
\* fewer than two values for a metric the implementation supports, the text
\* it returns is an error or failure string and not a computed value.
C12_FailuresAreErrorStrings ==
    returned.kind = "calculate_metric" =>
        /\ ~returned.raised
        /\ (\/ ~AllNumeric(returned.tokens)
            \/ /\ Lower(returned.metric_name) \in SupportedMetrics(returned.impl)
               /\ Len(returned.tokens) < 2)
               => IsFailureText(returned.result)

\* C13: for a supported metric and numeric values whose second value is 0,
\* either implementation skips the division and returns the message it
\* returns for an unknown metric name, not a division-by-zero error string.
C13_ZeroDenominatorFallsThrough ==
    (/\ returned.kind = "calculate_metric"
     /\ Lower(returned.metric_name) \in SupportedMetrics(returned.impl)
     /\ AllNumeric(returned.tokens)
     /\ Len(returned.tokens) >= 2
     /\ ParseValues(returned.tokens).nums[2] = 0)
        => /\ ~returned.raised
           /\ returned.result.form # "error"
           /\ returned.result.form =
                  CalculateMetric(returned.impl, "clv", returned.tokens).form

\* C14: for a metric name that is not supported, in any letter case, and
\* numeric values, the returned text is the "could not be computed" message
\* naming the metric, never a computed or successful result.
C14_UnknownMetricNotComputed ==
    (/\ returned.kind = "calculate_metric"
     /\ Lower(returned.metric_name) \notin SupportedMetrics(returned.impl)
     /\ AllNumeric(returned.tokens))
        => /\ returned.result.form = "could_not_be_computed"
           /\ returned.result.text =
                  "Metric '" \o returned.metric_name \o "' could not be computed. "
                      \o "Please verify the metric name and input values."

\* C15: the tool an agent registers computes Average Order Value: "aov" with
\* values a, b and b # 0 gives "AOV: $" and a / b to two decimals, so that
\* "aov" with "50000, 500" gives "AOV: $100.00".
C15_AovIsComputed ==
    (/\ returned.kind = "calculate_metric"
     /\ returned.impl \in { RegisteredTool(e) : e \in { "ui", "interactive", "demo" } }
     /\ returned.metric_name = "aov"
     /\ AllNumeric(returned.tokens)
     /\ Len(returned.tokens) = 2
     /\ ParseValues(returned.tokens).nums[2] # 0)
        => LET nums == ParseValues(returned.tokens).nums
           IN  /\ returned.result.text = "AOV: $" \o Fixed2(nums[1], nums[2])
               /\ returned.tokens = <<"50000", " 500">>
                      => returned.result.text = "AOV: $100.00"

\* C16: when retrieval finds nothing, because the vector store is unset or
\* the search returns no chunk, process_query still adds its five layers
\* and builds the prompt for the model, and the Retrieved Knowledge layer
\* and the prompt carry an empty-context message instead of nothing.
C16_EmptyRetrievalIsExplained ==
    (/\ last.outcome # "none"
     /\ last.stage # "retrieval"
     /\ last.retrieved_docs = <<>>)
        => /\ Len(context_layers) = 5
           /\ context_layers[3].layer = LayerLabels[3]
           /\ last.context_message =
                  ContextMessage(context_layers[3].content, last.history_text, last.query)
           /\ context_layers[3].content # ""

\* the messages of a sequence of exchanges <<question, answer>>, in order
RECURSIVE ExchangeMessages(_)
ExchangeMessages(xs) ==
    IF xs = <<>> THEN <<>>
    ELSE <<HumanMessage(xs[1][1]), AIMessage(xs[1][2])>> \o ExchangeMessages(Tail(xs))

\* msgs is made of whole exchanges: consecutive (question, answer) pairs
\* taken from the answered queries xs, in the order they were answered
IsWholeExchanges(msgs, xs) ==
    /\ Len(msgs) % 2 = 0
    /\ \A i \in 1..Len(msgs) :
           msgs[i].role = IF i % 2 = 1 THEN "user" ELSE "assistant"
    /\ \E i \in 1..Len(xs) + 1, j \in 0..Len(xs) :
           msgs = ExchangeMessages(SubSeq(xs, i, j))

\* C20: with one caller at a time and an even capacity N >= 2, after every
\* process_query, answered or failed, and after clear_conversation, the
\* memory holds whole exchanges: an even number of messages alternating
\* User, Assistant from a User message, each answer after its question.
C20_MemoryIsWholeExchanges ==
    (entry = "agent" /\ max_messages >= 2 /\ max_messages % 2 = 0)
        => IsWholeExchanges(messages, exchanges)

\* an exchange was dropped from a memory of capacity 2, then a query failed
C20_Witness ==
    /\ entry = "agent"
    /\ max_messages = 2
    /\ Len(exchanges) = 2
    /\ messages = ExchangeMessages(<<exchanges[2]>>)
    /\ last.outcome = "raised"

\* C19: every layer a ContextVisualizer holds has an integer token estimate
\* >= 0 after any sequence of add_layer calls, with or without an explicit
\* token_estimate, and so the total of the summary is >= 0.
C19_EstimatesAreNonNegative ==
    /\ \A i \in 1..Len(context_layers) :
           context_layers[i].tokens \in Int /\ context_layers[i].tokens >= 0
    /\ GetSummary(Viz).total_tokens >= 0

\* the invocations that have made both of their additions to the memory
Recorded == { t \in CallIds : calls[t].pc \in { "return", "returned" } }

\* C17: nothing serialises the queries of one agent.  An invocation that
\* reads the history while another waits for the knowledge base or the
\* model gets a history, and builds a prompt, without the other's exchange;
\* once both have recorded, the memory holds the question and the answer of
\* each in an order the interleaving decides, such as q1, q2, a1, a2.
C17_OverlappingQueriesMissEachOther ==
    entry = "concurrent" =>
        /\ \A t \in CallIds :
               (calls[t].pc # "start" /\ calls[t].overlapped # {}) =>
                   /\ calls[t].history_text = NoHistory
                   /\ calls[t].pc \in { "invoke", "add_user", "add_ai", "return", "returned" }
                          => calls[t].context_message =
                                 ContextMessage(calls[t].retrieved_context, NoHistory,
                                                calls[t].query)
        /\ Recorded = CallIds =>
               /\ Len(messages) = 4
               /\ \A t \in CallIds :
                      \E i \in 1..4, j \in 1..4 :
                          /\ i < j
                          /\ messages[i] = HumanMessage(calls[t].query)
                          /\ messages[j] = AIMessage(calls[t].response)

\* both invocations read the history before either recorded, and the memory
\* ends as question 1, question 2, answer 1, answer 2
C17_Witness ==
    /\ entry = "concurrent"
    /\ \A t \in CallIds : calls[t].pc = "returned"
    /\ calls[1].query # calls[2].query
    /\ calls[1].response # calls[2].response
    /\ calls[2].overlapped = {1}
    /\ calls[1].history_text = NoHistory
    /\ calls[2].history_text = NoHistory
    /\ messages = << HumanMessage(calls[1].query), HumanMessage(calls[2].query),
                     AIMessage(calls[1].response), AIMessage(calls[2].response) >>

\* C18: even when two invocations overlap, the visualizer an invocation
\* returns holds exactly the five layers of its own query: its own history,
\* its own retrieved knowledge and its own question, and no layer of the
\* other invocation.
C18_ReturnedVisualizerIsOwn ==
    \A t \in DOMAIN calls :
        calls[t].pc = "returned" =>
            LET layers == calls[t].visualizer.context_layers
            IN  /\ Len(layers) = 5
                /\ \A i \in 1..5 : layers[i].layer = LayerLabels[i]
                /\ layers[2].content = calls[t].history_text
                /\ layers[3].content = calls[t].retrieved_context
                /\ layers[4].content = calls[t].query

\* a step of the web UI's process_query handler with a blank query
BlankQueryStep ==
    /\ entry = "ui"
    /\ steps' = steps + 1
    /\ returned'.handler = "process_query"
    /\ Strip(returned'.query) = ""

\* C21: a query that is empty or only whitespace is a no-op in the web UI:
\* the handler returns the chat history unchanged, no retrieval and no
\* model call happen, and the agent's memory and visualizer stay as they
\* were.
C21_BlankQueryIsNoOp ==
    [][BlankQueryStep =>
           /\ chat_history' = chat_history
           /\ returned'.history = chat_history
           /\ last' = last
           /\ UNCHANGED <<memVars, vizVars, exchanges>>]_vars

\* a blank query came in after an answered one and changed nothing
C21_Witness ==
    /\ entry = "ui"
    /\ returned # NoReturn
    /\ returned.handler = "process_query"
    /\ returned.query = " "
    /\ agent # None
    /\ Len(messages) = 2
    /\ Len(context_layers) = 5
    /\ chat_history = <<UserTurn("Hi"), AssistantTurn(exchanges[1][2])>>

\* a step of the web UI's clear_conversation handler
ClearStep ==
    /\ entry = "ui"
    /\ steps' = steps
    /\ returned'.handler = "clear_conversation"

\* a query the agent takes right after clear_conversation
QueryAfterClearStep ==
    /\ entry = "ui"
    /\ returned # NoReturn
    /\ returned.handler = "clear_conversation"
    /\ steps' = steps + 1
    /\ ~IsBlank(returned'.query)
    /\ agent' # None

\* C22: clear_conversation resets the session.  It returns an empty chat
\* history, empties the agent's memory, does not raise without an agent and
\* leaves max_messages alone; the next query's Conversation History layer
\* is "No previous conversation" however many queries came before.
C22_ClearResetsSession ==
    [][/\ ClearStep =>
              /\ returned'.history = <<>>
              /\ chat_history' = <<>>
              /\ agent # None => messages' = <<>>
              /\ running' = "idle"
              /\ UNCHANGED <<max_messages, agent>>
       /\ QueryAfterClearStep =>
              /\ last'.messages_before = <<>>
              /\ last'.history_text = NoHistory
              /\ context_layers'[2].layer = "Conversation History"
              /\ context_layers'[2].content = NoHistory]_vars

\* two answered queries, a clear, and a third answered query whose history
\* layer is the sentinel
C22_Witness ==
    /\ entry = "ui"
    /\ Len(exchanges) = 3
    /\ last.outcome = "ok"
    /\ last.history_text = NoHistory
    /\ context_layers[2].content = NoHistory
    /\ messages = ExchangeMessages(<<exchanges[3]>>)

\* a step of the web UI's process_query handler with a query that is not
\* blank, taken while no agent is set
QueryWithoutAgentStep ==
    /\ entry = "ui"
    /\ agent = None
    /\ steps' = steps + 1
    /\ returned'.handler = "process_query"
    /\ ~IsBlank(returned'.query)

\* C23: when the agent cannot be constructed, a query in the web UI does
\* not raise: the handler appends the query and an "Error processing query"
\* message to the chat history and returns, the agent stays unset, and
\* every later query attempts the initialisation again.
C23_FailedConstructionIsReported ==
    [][QueryWithoutAgentStep =>
           /\ returned'.initialize_agent
           /\ agent' = None
           /\ running' = "idle"
           /\ chat_history' = chat_history \o
                  << UserTurn(returned'.query),
                     AssistantTurn("Error processing query: "
                         \o "'NoneType' object has no attribute 'process_query'") >>
           /\ returned'.history = chat_history'
           /\ shown'.kind = "error"
           /\ last' = last
           /\ UNCHANGED <<memVars, vizVars>>]_vars

\* two queries in a row were answered with the error message, each after a
\* new attempt to construct the agent
C23_Witness ==
    /\ entry = "ui"
    /\ agent = None
    /\ Len(chat_history) = 4
    /\ chat_history[3] = UserTurn("Hi")
    /\ chat_history[4] = AssistantTurn("Error processing query: "
                             \o "'NoneType' object has no attribute 'process_query'")
    /\ returned.handler = "process_query"
    /\ returned.initialize_agent

\* C24: an index build that fails for a missing PDF leaves the index on
\* disk as it was: whenever _load_or_create_index raises FileNotFoundError,
\* an index that existed before the call still exists after it; and an
\* existing index is loaded, the PDF untouched, exactly when recreate is
\* false.
C24_MissingPdfKeepsIndex ==
    returned.kind = "load_or_create_index" =>
        /\ (returned.exception = "FileNotFoundError" /\ returned.index_before # None)
               => disk.index # None
        /\ (returned.index_before # None /\ returned.outcome # "raised")
               => ((returned.outcome = "loaded" /\ ~returned.pdf_read)
                       <=> ~returned.recreate)

====
